---------------------------- MODULE Spec2Model ----------------------------
(***************************************************************************)
(* Model of the tweet-screenshot agent: the magnitude normaliser           *)
(* (parse_number), the request parser (parse_tweet_request), the count     *)
(* formatter (format_number), the renderer (generate_tweet_screenshot),    *)
(* the fragment selection of message/send (latest_text) and the two        *)
(* JSON-RPC handlers (handle_message_send, handle_execute).                *)
(*                                                                         *)
(* A Python str is a sequence of one-character strings.  A Python dict is  *)
(* a function whose DOMAIN is its key set.  A call that can raise returns  *)
(* [ok |-> TRUE, val |-> v] or [ok |-> FALSE, exc |-> "<exception>"].      *)
(***************************************************************************)
EXTENDS Integers, Sequences, FiniteSets, TLC

VARIABLES
    num_str,      \* parse_number: the argument
    num_res,      \* parse_number: <<>> before the call, <<outcome>> after
    shape,        \* parse_tweet_request: the parts the argument is made of
    text,         \* parse_tweet_request: the argument
    parsed,       \* parse_tweet_request: <<>> before the call, <<outcome>> after
    pc,           \* "idle", or "execute" inside the message loop of handle_execute
    served,       \* the number of requests the endpoint has answered
    request,      \* <<>>, or <<the request in hand or last answered>>
    latest_user_text, \* message/send: the selected text (handlers.py:152)
    tweet_data,   \* the tweet_data dict of the last message handled
    outcomes,     \* per message of the request: "rendered", "skipped" or "raised"
    renders,      \* the calls of generate_tweet_screenshot of the request
    task,         \* handle_execute: all_artifacts, all_history, last_message
    response,     \* <<>>, or <<the JSON-RPC response of the request>>
    output_dir,   \* the files in output/
    redis,        \* the cache: a dict from key to value
    uuids,        \* the number of uuid4 file names drawn so far
    fmt_num,      \* format_number: the argument
    fmt_res,      \* format_number: <<>> before the call, <<the str>> after
    render_args,  \* generate_tweet_screenshot: <<>>, or <<its arguments>>
    assets,       \* the files present under fonts/ and icons/
    rpc,          \* generate_tweet_screenshot: the position in its body
    fonts,        \* the font variables loaded so far: name -> kind of font
    lines,        \* the wrapped lines flushed so far (utils.py:176)
    current_line, \* the words of the line being filled (utils.py:177)
    text_y,       \* the y cursor (text_y, then stats_y, then button_y)
    drawn,        \* what was drawn on the canvas, in the order of the calls
    icon_i,       \* the number of action icons handled
    image         \* <<>>, or <<the outcome of the call>>

parse_vars == <<num_str, num_res, shape, text, parsed>>

handler_vars == <<pc, served, request, latest_user_text, tweet_data, outcomes,
                  renders, task, response, output_dir, redis, uuids>>

format_vars == <<fmt_num, fmt_res>>

\* The renderer's own state; its file lands in output_dir under a name drawn
\* from uuids.
render_vars == <<render_args, assets, rpc, fonts, lines, current_line, text_y,
                 drawn, icon_i, image>>

vars == <<num_str, num_res, shape, text, parsed, pc, served, request,
          latest_user_text, tweet_data, outcomes, renders, task, response,
          output_dir, redis, uuids, fmt_num, fmt_res, render_args, assets, rpc,
          fonts, lines, current_line, text_y, drawn, icon_i, image>>

-----------------------------------------------------------------------------
(* Generic helpers *)

Min(S) == CHOOSE x \in S : \A y \in S : x <= y

Max(S) == CHOOSE x \in S : \A y \in S : x >= y

Ok(v) == [ok |-> TRUE, val |-> v]

Raise(e) == [ok |-> FALSE, exc |-> e]

\* The element of a one-element set.  ValueOf({e(x) : x \in {v}}) is e with
\* x bound to the value of v, computed once.
ValueOf(S) == CHOOSE x \in S : TRUE

\* All sequences over S of length 0..n.
SeqsUpTo(S, n) == UNION {[1..k -> S] : k \in 0..n}

-----------------------------------------------------------------------------
(* Characters and the str methods the code uses *)

Digits == {"0", "1", "2", "3", "4", "5", "6", "7", "8", "9"}

Uppers == <<"A", "B", "C", "D", "E", "F", "G", "H", "I", "J", "K", "L", "M",
            "N", "O", "P", "Q", "R", "S", "T", "U", "V", "W", "X", "Y", "Z">>

Lowers == <<"a", "b", "c", "d", "e", "f", "g", "h", "i", "j", "k", "l", "m",
            "n", "o", "p", "q", "r", "s", "t", "u", "v", "w", "x", "y", "z">>

UpperSet == {Uppers[i] : i \in 1..26}

LowerSet == {Lowers[i] : i \in 1..26}

LowerChar(c) ==
    IF c \in UpperSet THEN Lowers[CHOOSE i \in 1..26 : Uppers[i] = c] ELSE c

UpperChar(c) ==
    IF c \in LowerSet THEN Uppers[CHOOSE i \in 1..26 : Lowers[i] = c] ELSE c

IsSpace(c) == c \in {" ", "\n", "\t"}

WordChars == Digits \cup UpperSet \cup LowerSet \cup {"_"}

IsWord(c) == c \in WordChars

\* str.lower()
lower(s) == [i \in 1..Len(s) |-> LowerChar(s[i])]

\* str.strip()
strip(s) ==
    LET keep == {i \in 1..Len(s) : ~IsSpace(s[i])}
    IN  IF keep = {} THEN <<>> ELSE SubSeq(s, Min(keep), Max(keep))

\* str.title(): a cased character is upper-cased after an uncased one (or at
\* the start) and lower-cased after a cased one.
title(s) ==
    [i \in 1..Len(s) |->
        IF i > 1 /\ (s[i-1] \in UpperSet \cup LowerSet)
        THEN LowerChar(s[i]) ELSE UpperChar(s[i])]

\* lit occurs in s at position i
HasAt(s, i, lit) ==
    /\ i + Len(lit) - 1 <= Len(s)
    /\ \A k \in 1..Len(lit) : s[i + k - 1] = lit[k]

\* str.startswith
startswith(s, lit) == HasAt(s, 1, lit)

\* the `in` operator on two strings
contains(s, lit) == \E i \in 1..(Len(s) + 1) : HasAt(s, i, lit)

\* str.replace(c, '') for a one-character c (the halves of s in turn)
remove_char(s, c) ==
    LET RECURSIVE pick(_, _)
        pick(lo, hi) ==
            IF lo > hi THEN <<>>
            ELSE IF lo = hi THEN (IF s[lo] = c THEN <<>> ELSE <<s[lo]>>)
            ELSE pick(lo, (lo + hi) \div 2) \o pick((lo + hi) \div 2 + 1, hi)
    IN  pick(1, Len(s))

-----------------------------------------------------------------------------
(* float() and int() on the strings parse_number hands them *)

DigitSeq == <<"0", "1", "2", "3", "4", "5", "6", "7", "8", "9">>

DigitVal(c) == (CHOOSE n \in 1..10 : DigitSeq[n] = c) - 1

AllDigits(s) == \A i \in 1..Len(s) : s[i] \in Digits

RECURSIVE DigitsValue(_)
DigitsValue(ds) ==
    IF ds = <<>> THEN 0
    ELSE 10 * DigitsValue(SubSeq(ds, 1, Len(ds) - 1)) + DigitVal(ds[Len(ds)])

StripLeadingZeros(ds) ==
    LET nz == {i \in 1..Len(ds) : ds[i] # "0"}
    IN  IF nz = {} THEN <<>> ELSE SubSeq(ds, Min(nz), Len(ds))

\* A decimal literal of float(): digits with an optional point and at least
\* one digit ("1", "1.", "1.5", ".5").  The result is its integer and
\* fractional digits; anything else is float()'s ValueError.  (Within the
\* alphabet of the inputs: no sign, exponent, underscore, inf or nan.)
\* float() ignores surrounding whitespace.
float_literal(raw) ==
    ValueOf({
        LET dots == {i \in 1..Len(s) : s[i] = "."} IN
        ValueOf({
            LET ip == SubSeq(s, 1, p - 1)
                fp == SubSeq(s, p + 1, Len(s))
            IN  IF /\ Cardinality(dots) <= 1
                   /\ AllDigits(ip) /\ AllDigits(fp)
                   /\ Len(ip) + Len(fp) >= 1
                THEN Ok([ip |-> ip, fp |-> fp])
                ELSE Raise("ValueError")
            : p \in {IF dots = {} THEN Len(s) + 1 ELSE Min(dots)}})
        : s \in {strip(raw)}})

\* The largest finite double is 1.7976931348623157e308: a product whose
\* integer part has more than 309 digits, or 309 digits that begin above the
\* digits of that bound, is the float infinity.
FloatMaxDigits == 309

FloatMaxLead == <<"1", "7", "9", "7", "6", "9", "3", "1", "3", "4", "8",
                  "6", "2", "3", "1", "5", "8">>

RECURSIVE LexGreater(_, _)
LexGreater(a, b) ==
    IF a = <<>> \/ b = <<>> THEN FALSE
    ELSE IF DigitVal(Head(a)) # DigitVal(Head(b))
         THEN DigitVal(Head(a)) > DigitVal(Head(b))
         ELSE LexGreater(Tail(a), Tail(b))

\* int(float(s) * 10^zeros): float()'s ValueError on a malformed literal,
\* int()'s OverflowError on the float infinity, and otherwise the product
\* truncated toward zero.  The product is the decimal one: the numerals of
\* the inputs below are those whose binary product truncates to it.
\* The digits of the integer part of ip.fp times 10^zeros.
shifted_digits(ip, fp, zeros) ==
    StripLeadingZeros(
        ip \o (IF zeros <= Len(fp) THEN SubSeq(fp, 1, zeros)
               ELSE fp \o [k \in 1..(zeros - Len(fp)) |-> "0"]))

int_float_times(s, zeros) ==
    ValueOf({
        IF ~f.ok THEN f
        ELSE ValueOf({
            IF \/ Len(whole) > FloatMaxDigits
               \/ Len(whole) = FloatMaxDigits /\ LexGreater(whole, FloatMaxLead)
            THEN Raise("OverflowError")
            ELSE Ok(DigitsValue(whole))
            : whole \in {shifted_digits(f.val.ip, f.val.fp, zeros)}})
        : f \in {float_literal(s)}})

\* int(s) on a stripped string: decimal digits only, at least one.
int_literal(s) ==
    IF Len(s) >= 1 /\ AllDigits(s) THEN Ok(DigitsValue(s))
    ELSE Raise("ValueError")

-----------------------------------------------------------------------------
(* HelperFunctions.parse_number *)

parse_number(raw) ==
    ValueOf({
        IF contains(s, <<"k">>) THEN int_float_times(remove_char(s, "k"), 3)
        ELSE IF contains(s, <<"m">>) THEN int_float_times(remove_char(s, "m"), 6)
        ELSE int_literal(s)
        : s \in {strip(lower(raw))}})

-----------------------------------------------------------------------------
(* The re module: patterns as trees, matched by backtracking in the order   *)
(* re tries the alternatives (leftmost start, then the pattern's own         *)
(* preferences: greedy repeats long first, lazy repeats short first).        *)
(* Patterns are matched against the lower-cased subject (re.IGNORECASE with  *)
(* lower-case literals); groups are cut out of the subject as given.         *)

Str(lit) == [t |-> "str", s |-> lit]          \* a literal

Cls(c) == [t |-> "cls", c |-> c]              \* \d \s \w .  as "d" "s" "w" "."

Cat(rs) == [t |-> "seq", rs |-> rs]           \* concatenation

Alt(rs) == [t |-> "alt", rs |-> rs]           \* a|b|c

Grp(n, r) == [t |-> "grp", n |-> n, r |-> r]  \* capturing group number n

Opt(r) == [t |-> "opt", r |-> r]              \* r?  (greedy)

Plus(c) == [t |-> "rep", c |-> c, min |-> 1, greedy |-> TRUE]      \* c+

Star(c) == [t |-> "rep", c |-> c, min |-> 0, greedy |-> TRUE]      \* c*

PlusLazy(c) == [t |-> "rep", c |-> c, min |-> 1, greedy |-> FALSE] \* c+?

EndAnchor == [t |-> "end"]                    \* $

InClass(ch, c) ==
    CASE c = "d" -> ch \in Digits
      [] c = "s" -> IsSpace(ch)
      [] c = "w" -> IsWord(ch)
      [] c = "." -> ch # "\n"

\* The first position at or after i whose character is not of class c.
RunEnd(s, i, c) ==
    CHOOSE j \in i..(Len(s) + 1) :
        /\ j = Len(s) + 1 \/ ~InClass(s[j], c)
        /\ \A k \in i..(j - 1) : InClass(s[k], c)

\* $ without re.MULTILINE: the end of the subject, or just before a newline
\* that ends it.
AtEnd(s, i) == i = Len(s) + 1 \/ (i = Len(s) /\ s[i] = "\n")

NoGroups == [g \in 1..2 |-> <<0, 0>>]

NoMatch == [ok |-> FALSE]

\* Match the patterns of `todo`, one after the other, from position i of s.
\* FirstEnd is a repeat of a character class: the run may end at any of
\* lo..hi, tried longest first (greedy) or shortest first (lazy); the first
\* end from which the rest matches is the match.
RECURSIVE Match(_, _, _, _), FirstEnd(_, _, _, _, _, _)
Match(s, todo, i, groups) ==
    IF todo = <<>> THEN [ok |-> TRUE, end |-> i, groups |-> groups]
    ELSE
      LET h    == Head(todo)
          rest == Tail(todo)
      IN
      CASE h.t = "str" ->
             IF HasAt(s, i, h.s) THEN Match(s, rest, i + Len(h.s), groups)
             ELSE NoMatch
        [] h.t = "cls" ->
             IF i <= Len(s) /\ InClass(s[i], h.c)
             THEN Match(s, rest, i + 1, groups) ELSE NoMatch
        [] h.t = "seq" -> Match(s, h.rs \o rest, i, groups)
        [] h.t = "alt" ->
             ValueOf({
                 IF first.ok THEN first
                 ELSE IF Len(h.rs) = 1 THEN NoMatch
                 ELSE Match(s, <<Alt(Tail(h.rs))>> \o rest, i, groups)
                 : first \in {Match(s, <<Head(h.rs)>> \o rest, i, groups)}})
        [] h.t = "opt" ->
             ValueOf({
                 IF with.ok THEN with ELSE Match(s, rest, i, groups)
                 : with \in {Match(s, <<h.r>> \o rest, i, groups)}})
        [] h.t = "grp" ->
             Match(s, <<h.r, [t |-> "close", n |-> h.n, from |-> i]>> \o rest,
                   i, groups)
        [] h.t = "close" ->
             Match(s, rest, i, [groups EXCEPT ![h.n] = <<h.from, i>>])
        [] h.t = "end" ->
             IF AtEnd(s, i) THEN Match(s, rest, i, groups) ELSE NoMatch
        [] h.t = "rep" ->
             FirstEnd(s, rest, groups, i + h.min, RunEnd(s, i, h.c), h.greedy)

FirstEnd(s, rest, groups, lo, hi, greedy) ==
    IF lo > hi THEN NoMatch
    ELSE IF lo = hi THEN Match(s, rest, lo, groups)
    ELSE
      LET mid == (lo + hi) \div 2 IN
      ValueOf({
          IF first.ok THEN first
          ELSE IF greedy THEN FirstEnd(s, rest, groups, lo, mid, greedy)
          ELSE FirstEnd(s, rest, groups, mid + 1, hi, greedy)
          : first \in {IF greedy
                       THEN FirstEnd(s, rest, groups, mid + 1, hi, greedy)
                       ELSE FirstEnd(s, rest, groups, lo, mid, greedy)}})

\* The match that starts at the leftmost of the positions lo..hi.
RECURSIVE FirstStart(_, _, _, _)
FirstStart(s, pattern, lo, hi) ==
    IF lo = hi
    THEN ValueOf({
             IF m.ok THEN [ok |-> TRUE, start |-> lo, end |-> m.end,
                           groups |-> m.groups]
             ELSE NoMatch
             : m \in {Match(s, <<pattern>>, lo, NoGroups)}})
    ELSE ValueOf({
             IF first.ok THEN first
             ELSE FirstStart(s, pattern, (lo + hi) \div 2 + 1, hi)
             : first \in {FirstStart(s, pattern, lo, (lo + hi) \div 2)}})

\* re.search(pattern, subject, re.IGNORECASE): the match at the leftmost
\* position where the pattern matches, with the groups as substrings of the
\* subject (group(n) is g[n]).
search(pattern, subject) ==
    ValueOf({
        IF ~m.ok THEN NoMatch
        ELSE [ok    |-> TRUE,
              start |-> m.start,
              end   |-> m.end,
              g     |-> [n \in 1..2 |->
                           SubSeq(subject, m.groups[n][1],
                                  m.groups[n][2] - 1)]]
        : m \in {FirstStart(lower(subject), pattern, 1, Len(subject) + 1)}})

-----------------------------------------------------------------------------
(* The literals of the patterns *)

L_with == <<"w", "i", "t", "h">>

L_like == <<"l", "i", "k", "e">>

L_s == <<"s">>

L_k == <<"k">>

L_m == <<"m">>

L_retweet == <<"r", "e", "t", "w", "e", "e", "t">>

L_repl == <<"r", "e", "p", "l">>

L_y == <<"y">>

L_ies == <<"i", "e", "s">>

L_view == <<"v", "i", "e", "w">>

L_create == <<"c", "r", "e", "a", "t", "e">>

L_generate == <<"g", "e", "n", "e", "r", "a", "t", "e">>

L_make == <<"m", "a", "k", "e">>

L_tweet == <<"t", "w", "e", "e", "t">>

L_a == <<"a">>

L_verified == <<"v", "e", "r", "i", "f", "i", "e", "d">>

L_for == <<"f", "o", "r">>

L_at == <<"@">>

L_saying == <<"s", "a", "y", "i", "n", "g">>

L_post == <<"p", "o", "s", "t">>

-----------------------------------------------------------------------------
(* HelperFunctions.parse_tweet_request *)

\* (\d+(?:k|m)?)
magnitude == Grp(1, Cat(<<Plus("d"), Opt(Alt(<<Str(L_k), Str(L_m)>>))>>))

\* r"with\s+(\d+(?:k|m)?)\s+likes?"
likes_pattern ==
    Cat(<<Str(L_with), Plus("s"), magnitude, Plus("s"), Str(L_like),
          Opt(Str(L_s))>>)

\* r"(\d+(?:k|m)?)\s+retweets?"
retweets_pattern ==
    Cat(<<magnitude, Plus("s"), Str(L_retweet), Opt(Str(L_s))>>)

\* r"(\d+(?:k|m)?)\s+repl(?:y|ies)"
replies_pattern ==
    Cat(<<magnitude, Plus("s"), Str(L_repl), Alt(<<Str(L_y), Str(L_ies)>>)>>)

\* r"(\d+(?:k|m)?)\s+views?"
views_pattern ==
    Cat(<<magnitude, Plus("s"), Str(L_view), Opt(Str(L_s))>>)

\* (.+?)(?:\s+with\s+|\s*$) with the body as group n
body_until_with(n) ==
    Cat(<<Grp(n, PlusLazy(".")),
          Alt(<<Cat(<<Plus("s"), Str(L_with), Plus("s")>>),
                Cat(<<Star("s"), EndAnchor>>)>>)>>)

\* r"(?:create|generate|make|tweet)?\s*(?:a\s+)?(?:verified\s+)?(?:tweet\s+)?
\*   for\s+@?(\w+)\s+saying\s+(.+?)(?:\s+with\s+|\s*$)"
pattern1 ==
    Cat(<<Opt(Alt(<<Str(L_create), Str(L_generate), Str(L_make),
                    Str(L_tweet)>>)),
          Star("s"),
          Opt(Cat(<<Str(L_a), Plus("s")>>)),
          Opt(Cat(<<Str(L_verified), Plus("s")>>)),
          Opt(Cat(<<Str(L_tweet), Plus("s")>>)),
          Str(L_for), Plus("s"), Opt(Str(L_at)), Grp(1, Plus("w")),
          Plus("s"), Str(L_saying), Plus("s"),
          body_until_with(2)>>)

\* r"(?:create|generate|make)?\s*(?:a\s+)?(?:verified\s+)?(?:tweet\s+)?
\*   saying\s+(.+?)(?:\s+with\s+|\s*$)"
pattern2 ==
    Cat(<<Opt(Alt(<<Str(L_create), Str(L_generate), Str(L_make)>>)),
          Star("s"),
          Opt(Cat(<<Str(L_a), Plus("s")>>)),
          Opt(Cat(<<Str(L_verified), Plus("s")>>)),
          Opt(Cat(<<Str(L_tweet), Plus("s")>>)),
          Str(L_saying), Plus("s"),
          body_until_with(1)>>)

\* r"(?:create|generate|make)\s+(?:a\s+)?(?:verified\s+)?tweet\s+
\*   (.+?)(?:\s+with\s+|\s*$)"
pattern4 ==
    Cat(<<Alt(<<Str(L_create), Str(L_generate), Str(L_make)>>),
          Plus("s"),
          Opt(Cat(<<Str(L_a), Plus("s")>>)),
          Opt(Cat(<<Str(L_verified), Plus("s")>>)),
          Str(L_tweet), Plus("s"),
          body_until_with(1)>>)

command_words == {L_create, L_generate, L_make, L_tweet, L_post, L_verified}

EmptyDict == <<>>

\* d[k] = v
Put(d, k, v) == (k :> v) @@ d

\* dict.update: the keys of `new` replace those of d
update(d, new) == new @@ d

\* dict.get(k, default)
get(d, k, default) == IF k \in DOMAIN d THEN d[k] ELSE default

\* The four engagement clauses, in the order the code evaluates them.
clause_keys == <<"likes", "retweets", "replies", "views">>

clause_patterns ==
    <<likes_pattern, retweets_pattern, replies_pattern, views_pattern>>

\* Clauses n..4 added to d: a clause whose pattern does not match adds
\* nothing, one that matches adds parse_number of the captured token, and an
\* exception of parse_number ends the call.
RECURSIVE engagement(_, _, _)
engagement(text_, n, d) ==
    IF n > 4 THEN Ok(d)
    ELSE ValueOf({
        IF ~m.ok THEN engagement(text_, n + 1, d)
        ELSE ValueOf({
            IF ~v.ok THEN v
            ELSE engagement(text_, n + 1, Put(d, clause_keys[n], v.val))
            : v \in {parse_number(m.g[1])}})
        : m \in {search(clause_patterns[n], text_)}})

\* body_fields with pattern 2 tried before pattern 1.
body_fields_saying_first(text_) ==
    LET starts_with_command ==
            \E word \in command_words : startswith(strip(lower(text_)), word)
        by_pattern1(m) ==
            Put(Put(Put(EmptyDict, "username", lower(m.g[1])),
                    "display_name", title(m.g[1])),
                "tweet_text", strip(m.g[2]))
        by_pattern2(m) == Put(EmptyDict, "tweet_text", strip(m.g[1]))
    IN  ValueOf({
        IF m2.ok THEN by_pattern2(m2)
        ELSE ValueOf({
            IF m1.ok THEN by_pattern1(m1)
            ELSE IF ~starts_with_command /\ strip(text_) # <<>>
            THEN Put(EmptyDict, "tweet_text", strip(text_))
            ELSE ValueOf({
                IF m4.ok THEN Put(EmptyDict, "tweet_text", strip(m4.g[1]))
                ELSE EmptyDict
                : m4 \in {search(pattern4, text_)}})
            : m1 \in {search(pattern1, text_)}})
        : m2 \in {search(pattern2, text_)}})

\* The body text and the author: patterns 1 to 4 in the order of the code.
body_fields(text_) ==
    LET starts_with_command ==
            \E word \in command_words : startswith(strip(lower(text_)), word)
        by_pattern1(m) ==
            Put(Put(Put(EmptyDict, "username", lower(m.g[1])),
                    "display_name", title(m.g[1])),
                "tweet_text", strip(m.g[2]))
        by_pattern2(m) == Put(EmptyDict, "tweet_text", strip(m.g[1]))
    IN  ValueOf({
        IF m1.ok THEN by_pattern1(m1)
        ELSE ValueOf({
            IF m2.ok THEN by_pattern2(m2)
            ELSE IF ~starts_with_command /\ strip(text_) # <<>>
            THEN Put(EmptyDict, "tweet_text", strip(text_))
            ELSE ValueOf({
                IF m4.ok THEN Put(EmptyDict, "tweet_text", strip(m4.g[1]))
                ELSE EmptyDict
                : m4 \in {search(pattern4, text_)}})
            : m2 \in {search(pattern2, text_)}})
        : m1 \in {search(pattern1, text_)}})

parse_tweet_request(text_) ==
    LET flag == IF contains(strip(lower(text_)), L_verified)
                THEN Put(EmptyDict, "verified", TRUE) ELSE EmptyDict
    IN  ValueOf({
        IF ~counts.ok THEN counts
        ELSE Ok(update(counts.val, body_fields(text_)))
        : counts \in {engagement(text_, 1, flag)}})

-----------------------------------------------------------------------------
(* The state of the endpoint before any request *)

None == <<>>

Some(v) == <<v>>

NoTask == [all_artifacts |-> <<>>, all_history |-> <<>>, last_message |-> None]

HandlerInit ==
    /\ pc = "idle"
    /\ served = 0
    /\ request = <<>>
    /\ latest_user_text = <<>>
    /\ tweet_data = EmptyDict
    /\ outcomes = <<>>
    /\ renders = <<>>
    /\ task = NoTask
    /\ response = <<>>
    /\ output_dir = {}
    /\ redis = EmptyDict
    /\ uuids = 0

\* No call of format_number is in hand.
FormatIdle ==
    /\ fmt_num = 0
    /\ fmt_res = <<>>

\* No call of generate_tweet_screenshot is in hand.
RenderIdle ==
    /\ render_args = <<>>
    /\ assets = {}
    /\ rpc = "idle"
    /\ fonts = EmptyDict
    /\ lines = <<>>
    /\ current_line = <<>>
    /\ text_y = 0
    /\ drawn = <<>>
    /\ icon_i = 0
    /\ image = <<>>

-----------------------------------------------------------------------------
(* parse_number applied to every string of the bounded alphabet *)

MaxNumLen == 4

NumAlphabet == {"0", "1", "5", ".", "k", "m", "K", " "}

\* The inputs: at most three digits, so that every value (at most 999m) is
\* a 32-bit integer.
NumInputs ==
    {s \in SeqsUpTo(NumAlphabet, MaxNumLen) :
        Cardinality({i \in 1..Len(s) : s[i] \in Digits}) <= 3}

NumInit ==
    /\ num_str \in NumInputs
    /\ num_res = <<>>
    /\ shape = <<>>
    /\ text = <<>>
    /\ parsed = <<>>
    /\ HandlerInit
    /\ FormatIdle
    /\ RenderIdle

ParseNumber ==
    /\ num_res = <<>>
    /\ num_res' = <<parse_number(num_str)>>
    /\ UNCHANGED <<num_str, shape, text, parsed>>
    /\ UNCHANGED handler_vars
    /\ UNCHANGED format_vars
    /\ UNCHANGED render_vars

NumNext == ParseNumber

SpecNumber == NumInit /\ [][NumNext]_vars

-----------------------------------------------------------------------------
(* parse_tweet_request applied to command texts *)

\* A text is words joined by single spaces, then `trail` spaces.
RECURSIVE Join(_)
Join(ws) ==
    IF ws = <<>> THEN <<>>
    ELSE IF Len(ws) = 1 THEN ws[1]
    ELSE ws[1] \o <<" ">> \o Join(Tail(ws))

Spaces(n) == [i \in 1..n |-> " "]

\* A numeral of FloatMaxDigits digits.
HugeNumeral == [i \in 1..FloatMaxDigits |-> "9"]

\* The magnitude tokens of the engagement clauses.
Tokens ==
    {<<"1", "0">>, <<"2", "0", "0">>, <<"2", "M">>, <<"1", ".", "5", "k">>,
     <<"1", ".", "5">>, <<"5", "k", "m">>, HugeNumeral \o L_k}

CmdWords ==
    {<<>>,
     <<<<"c", "r", "e", "a", "t", "e">>, <<"a">>, <<"t", "w", "e", "e", "t">>>>,
     <<<<"M", "a", "k", "e">>, <<"a">>, <<"v", "e", "r", "i", "f", "i", "e", "d">>, <<"t", "w", "e", "e", "t">>>>,
     <<<<"h", "e", "l", "l", "o">>>>}

WhoWords ==
    {<<>>,
     <<<<"f", "o", "r">>, <<"b", "o", "b">>>>,
     <<<<"f", "o", "r">>, <<"@", "B", "o", "b", "_", "1">>>>,
     <<<<"f", "o", "r">>, <<"b", "o", "b">>, <<"s", "m", "i", "t", "h">>>>}

SayWords == {<<>>, <<L_saying>>}

BodyWords ==
    {<<>>,
     <<<<"g", "r", "e", "a", "t">>, <<"n", "e", "w", "s">>>>,
     <<<<"l", "u", "n", "c", "h">>, <<"w", "i", "t", "h">>, <<"f", "r", "i", "e", "n", "d", "s">>>>}

\* The first clause slot: nothing, or "with <N> likes".
LikesWords(tok) == <<L_with, tok, <<"l", "i", "k", "e", "s">>>>

\* The second clause slot: nothing, or "and <N> <metric>".
Metrics == {<<"r", "e", "t", "w", "e", "e", "t", "s">>, <<"r", "e", "p", "l", "y">>, <<"v", "i", "e", "w", "s">>}

MetricWords(tok, metric) == <<<<"a", "n", "d">>, tok, metric>>

MaxTrail == 2

NoClause == {<<>>}

\* Every wording of the command, with at most the clause "with 10 likes".
WordingShapes ==
    [cmd : CmdWords, who : WhoWords, say : SayWords, body : BodyWords,
     likes : NoClause \cup {<<<<"1", "0">>>>},
     other : NoClause,
     trail : {0, MaxTrail}]

\* Every pair of engagement clauses, after one wording of the command.
ClauseShapes ==
    [cmd : {<<<<"c", "r", "e", "a", "t", "e">>, <<"a">>, <<"v", "e", "r", "i", "f", "i", "e", "d">>, <<"t", "w", "e", "e", "t">>>>},
     who : {<<<<"f", "o", "r">>, <<"b", "o", "b">>>>},
     say : {<<L_saying>>},
     body : {<<<<"g", "r", "e", "a", "t">>, <<"n", "e", "w", "s">>>>},
     likes : NoClause \cup {<<tok>> : tok \in Tokens},
     other : NoClause \cup {<<tok, metric>> : tok \in Tokens \ {HugeNumeral \o L_k},
                                               metric \in Metrics},
     trail : {0}]

Shapes == WordingShapes \cup ClauseShapes

TextOf(sh) ==
    Join(sh.cmd \o sh.who \o sh.say \o sh.body
         \o (IF sh.likes = <<>> THEN <<>> ELSE LikesWords(sh.likes[1]))
         \o (IF sh.other = <<>> THEN <<>>
             ELSE MetricWords(sh.other[1], sh.other[2])))
    \o Spaces(sh.trail)

ParseInit ==
    /\ shape \in {<<sh>> : sh \in Shapes}
    /\ text = TextOf(shape[1])
    /\ parsed = <<>>
    /\ num_str = <<>>
    /\ num_res = <<>>
    /\ HandlerInit
    /\ FormatIdle
    /\ RenderIdle

ParseTweetRequest ==
    /\ parsed = <<>>
    /\ parsed' = <<parse_tweet_request(text)>>
    /\ UNCHANGED <<num_str, num_res, shape, text>>
    /\ UNCHANGED handler_vars
    /\ UNCHANGED format_vars
    /\ UNCHANGED render_vars

ParseNext == ParseTweetRequest

SpecParse == ParseInit /\ [][ParseNext]_vars

-----------------------------------------------------------------------------
(* The values handle_message_send walks: Python objects with their type *)

PyNone == [type |-> "NoneType"]

PyStr(s) == [type |-> "str", s |-> s]

PyList(items) == [type |-> "list", items |-> items]

PyDict(d) == [type |-> "dict", d |-> d]

\* schemas.MessagePart: text and data are None or Some(value)
MessagePart(kind, text_, data) ==
    [type |-> "MessagePart", kind |-> kind, text |-> text_, data |-> data]

TextPart(t) == MessagePart("text", Some(t), None)

DataPart(d) == MessagePart("data", None, Some(d))

\* bool(value)
Truthy(v) ==
    CASE v.type = "NoneType" -> FALSE
      [] v.type = "str" -> v.s # <<>>
      [] v.type = "list" -> v.items # <<>>
      [] v.type = "dict" -> DOMAIN v.d # {}
      [] OTHER -> TRUE

-----------------------------------------------------------------------------
(* Handler.handle_message_send.latest_text *)

noise_keywords ==
    {<<"g", "e", "n", "e", "r", "a", "t", "i", "n", "g", " ", "t", "h", "e", " ", "t", "w", "e", "e", "t">>,
     <<"g", "e", "n", "e", "r", "a", "t", "i", "n", "g", " ", "t", "h", "e", " ", "t", "w", "e", "e", "t", " ", "f", "o", "r">>,
     <<"c", "r", "e", "a", "t", "i", "n", "g", " ", "t", "h", "e", " ", "t", "w", "e", "e", "t">>,
     <<"c", "r", "e", "a", "t", "i", "n", "g", " ", "t", "h", "e", " ", "v", "e", "r", "i", "f", "i", "e", "d", " ", "t", "w", "e", "e", "t">>,
     <<"g", "e", "n", "e", "r", "a", "t", "e", "d", " ", "t", "w", "i", "t", "t", "e", "r", " ", "s", "c", "r", "e", "e", "n", "s", "h", "o", "t">>,
     <<"g", "e", "n", "e", "r", "a", "t", "e", "d", " ", "t", "h", "e", " ", "t", "w", "e", "e", "t">>,
     <<"c", "r", "e", "a", "t", "i", "n", "g", " ", "t", "h", "e", " ", "t", "w", "e", "e", "t", " ", "n", "o", "w">>,
     <<"c", "r", "e", "a", "t", "i", "n", "g", " ", "t", "h", "e", " ", "t", "w", "e", "e", "t", " ", "f", "o", "r">>}

MinFragmentLen == 6

\* The character U+0060, as one character of a str.
Backquote == "<backquote>"

is_noise(txt) ==
    \E lower_ \in {strip(lower(txt))} :
        \/ txt = <<>>
        \/ Len(lower_) < MinFragmentLen
        \/ \E kw \in noise_keywords : contains(lower_, kw)
        \/ startswith(lower_, <<"<", "p", "r", "e">>)
        \/ startswith(lower_, <<Backquote, Backquote, Backquote>>)

\* The module never imports html: for any raw that is not None the call
\* html.unescape(raw) is a NameError, before the tags are removed.
clean_text(raw) ==
    IF raw.type = "NoneType" THEN Ok(<<>>) ELSE Raise("NameError")

\* The candidates extract appends for a node, in the order it appends them.
\* A node that is neither None nor a list, a dict or a str (a MessagePart
\* object, which is what the validated request holds) adds nothing.
\* r1 then r2: the first exception, or the two lists one after the other.
both(r1, r2) ==
    ValueOf({
        IF ~a.ok THEN a
        ELSE ValueOf({IF ~b.ok THEN b ELSE Ok(a.val \o b.val) : b \in {r2}})
        : a \in {r1}})

\* candidates.append(clean_text(raw))
appended(raw) ==
    ValueOf({IF txt.ok THEN Ok(<<txt.val>>) ELSE txt : txt \in {clean_text(raw)}})

RECURSIVE extract(_), extract_each(_)
extract(node) ==
    CASE node.type = "NoneType" -> Ok(<<>>)
      [] node.type = "list" -> extract_each(node.items)
      [] node.type = "dict" ->
           IF /\ get(node.d, "kind", PyNone) = PyStr(<<"t", "e", "x", "t">>)
              /\ Truthy(get(node.d, "text", PyNone))
           THEN appended(get(node.d, "text", PyNone))
           ELSE both(both(IF /\ "text" \in DOMAIN node.d
                             /\ ~Truthy(get(node.d, "kind", PyNone))
                          THEN appended(get(node.d, "text", PyNone))
                          ELSE Ok(<<>>),
                          extract(get(node.d, "data", PyNone))),
                     extract(get(node.d, "parts", PyNone)))
      [] node.type = "str" -> appended(node)
      [] OTHER -> Ok(<<>>)

\* for item in node: extract(item)
extract_each(items) ==
    IF items = <<>> THEN Ok(<<>>)
    ELSE both(extract(Head(items)), extract_each(Tail(items)))

\* The last candidate that is not empty and not noise, or "".
latest_text(parts) ==
    ValueOf({
        IF ~candidates.ok THEN candidates
        ELSE LET c    == candidates.val
                 good == {i \in 1..Len(c) : c[i] # <<>> /\ ~is_noise(c[i])}
             IN  Ok(IF good = {} THEN <<>> ELSE c[Max(good)])
        : candidates \in {extract(parts)}})

-----------------------------------------------------------------------------
(* Handler.handle_message_send *)

\* (?=(?:create|generate|make)\s+(?:a\s+)?(?:verified\s+)?tweet)
split_pattern ==
    Cat(<<Alt(<<Str(L_create), Str(L_generate), Str(L_make)>>),
          Plus("s"),
          Opt(Cat(<<Str(L_a), Plus("s")>>)),
          Opt(Cat(<<Str(L_verified), Plus("s")>>)),
          Str(L_tweet)>>)

\* The elements of a set of numbers in increasing order.
RECURSIVE Sorted(_)
Sorted(S) == IF S = {} THEN <<>> ELSE <<Min(S)>> \o Sorted(S \ {Min(S)})

\* re.split at every position where the lookahead holds, then the stripped
\* pieces that are not empty.
split_segments(t) ==
    ValueOf({
        LET starts  == Sorted({1} \cup cuts)
            stop(a) == Min({c \in cuts \cup {Len(t) + 1} : c > a}) - 1
            pieces  == [k \in 1..Len(starts) |->
                          strip(SubSeq(t, starts[k], stop(starts[k])))]
        IN  SelectSeq(pieces, LAMBDA piece : piece # <<>>)
        : cuts \in {{i \in 2..Len(t) :
                        Match(lower(t), <<split_pattern>>, i, NoGroups).ok}}})

\* The keyword arguments the handlers give generate_tweet_screenshot (views
\* is not among them), and the file the call writes: output/tweet_<uuid>.png.
\* The fonts, the icons and the output directory are taken to be in place, so
\* the call returns; it draws an empty tweet_text as no line of text.
render_call(td, uuid) ==
    [username     |-> get(td, "username", <<"u", "s", "e", "r">>),
     display_name |-> get(td, "display_name",
                          title(get(td, "username", <<"u", "s", "e", "r">>))),
     tweet_text   |-> td["tweet_text"],
     verified     |-> get(td, "verified", FALSE),
     likes        |-> get(td, "likes", 0),
     retweets     |-> get(td, "retweets", 0),
     replies      |-> get(td, "replies", 0),
     timestamp    |-> get(td, "timestamp", None),
     filepath     |-> uuid]

\* The views the renderer works with for a call: the argument, or the
\* default of the parameter when the caller gives none (utils.py:38).
bound_views(call) == get(call, "views", 0)

\* The response text and artifact of one screenshot.
screenshot_of(call) == [username |-> call.username, image_id |-> call.filepath]

completed(last_message, artifacts, history) ==
    [kind |-> "result", state |-> "completed", message |-> last_message,
     artifacts |-> artifacts, history |-> history]

\* The error of handlers.py:171-177.
missing_content ==
    [kind |-> "error", code |-> -32602, message |-> "Missing tweet content"]

\* The router's answer to an exception of a handler (router.py:138-153).
invalid_params(exc) ==
    [kind |-> "error", code |-> -32602, message |-> "Invalid params", exc |-> exc]

\* What a handler run did: the files it wrote, the cache entries it set, the
\* renders it made and the response the caller gets.
Effect(selected, td, calls, writes, resp) ==
    [selected |-> selected, tweet_data |-> td, renders |-> calls,
     files |-> {calls[i].filepath : i \in 1..Len(calls)},
     writes |-> writes, response |-> resp]

\* handlers.py:179-258, for a tweet_data that has tweet_text.  The image
\* store of lines 205-217 loses to a NameError (base64 is not imported) that
\* its except logs: no image entry is set and the file stays.  The metadata
\* setex of line 220 is outside any try.
render_and_store(selected, td, call, redis_up) ==
    IF redis_up
    THEN Effect(selected, td, <<call>>,
                Put(EmptyDict, <<"tweet", call.filepath>>, td),
                completed(Some(screenshot_of(call)), <<screenshot_of(call)>>, <<>>))
    ELSE Effect(selected, td, <<call>>, EmptyDict,
                invalid_params("ConnectionError"))

\* handlers.py:155-177, then the rest: the last segment of the selected
\* text, parsed.
parse_selected(selected, uuid, redis_up) ==
    ValueOf({
        ValueOf({
            IF ~parsed_data.ok
            THEN Effect(selected, EmptyDict, <<>>, EmptyDict,
                        invalid_params(parsed_data.exc))
            ELSE IF "tweet_text" \notin DOMAIN parsed_data.val
            THEN Effect(selected, EmptyDict, <<>>, EmptyDict, missing_content)
            ELSE ValueOf({
                render_and_store(selected, parsed_data.val, call, redis_up)
                : call \in {render_call(parsed_data.val, uuid)}})
            : parsed_data \in {IF segments # <<>>
                               THEN parse_tweet_request(segments[Len(segments)])
                               ELSE Ok(EmptyDict)}})
        : segments \in {IF selected # <<>> THEN split_segments(selected)
                        ELSE <<>>}})

handle_message_send(message, uuid, redis_up) ==
    ValueOf({
        IF ~latest.ok
        THEN Effect(<<>>, EmptyDict, <<>>, EmptyDict, invalid_params(latest.exc))
        ELSE parse_selected(latest.val, uuid, redis_up)
        : latest \in {latest_text(PyList(message.parts))}})

-----------------------------------------------------------------------------
(* The requests: what a caller can put in the parts of a message *)

Cmd_bob == <<"c", "r", "e", "a", "t", "e", " ", "a", " ", "t", "w", "e", "e", "t", " ", "f", "o", "r", " ", "b", "o", "b", " ", "s", "a", "y", "i", "n", "g", " ", "h", "i", " ", "w", "i", "t", "h", " ", "1", "0", " ", "l", "i", "k", "e", "s">>

Cmd_no_body == <<"c", "r", "e", "a", "t", "e", " ", "a", " ", "t", "w", "e", "e", "t">>

Cmd_blank_body == <<"c", "r", "e", "a", "t", "e", " ", "a", " ", "t", "w", "e", "e", "t", " ", "s", "a", "y", "i", "n", "g", " ", " ">>

Cmd_huge == TextOf([cmd |-> <<L_create, L_a, L_tweet>>, who |-> <<>>,
                    say |-> <<L_saying>>, body |-> <<<<"h", "i">>>>,
                    likes |-> <<HugeNumeral \o L_k>>, other |-> <<>>,
                    trail |-> 0])

Verbatim == <<"h", "e", "l", "l", "o", " ", "w", "o", "r", "l", "d">>

Markup == <<"<", "h", "t", "m", "l", ">", ".", ".", ".", "<", "/", "h", "t", "m", "l", ">">>

Status == <<"G", "e", "n", "e", "r", "a", "t", "i", "n", "g", " ", "t", "h", "e", " ", "t", "w", "e", "e", "t", ".", ".", ".">>

Cmd_first_draft == <<"c", "r", "e", "a", "t", "e", " ", "a", " ", "t", "w", "e", "e", "t", " ", "f", "o", "r", " ", "c", "a", "r", "o", "l", " ", "s", "a", "y", "i", "n", "g", " ", "f", "i", "r", "s", "t", " ", "d", "r", "a", "f", "t">>

Cmd_final_version == <<"c", "r", "e", "a", "t", "e", " ", "a", " ", "t", "w", "e", "e", "t", " ", "f", "o", "r", " ", "c", "a", "r", "o", "l", " ", "s", "a", "y", "i", "n", "g", " ", "f", "i", "n", "a", "l", " ", "v", "e", "r", "s", "i", "o", "n">>

Cmd_twice == <<"c", "r", "e", "a", "t", "e", " ", "a", " ", "t", "w", "e", "e", "t", " ", "f", "o", "r", " ", "a", "l", " ", "s", "a", "y", "i", "n", "g", " ", "o", "n", "e", " ", "c", "r", "e", "a", "t", "e", " ", "a", " ", "t", "w", "e", "e", "t", " ", "f", "o", "r", " ", "b", "o", "b", " ", "s", "a", "y", "i", "n", "g", " ", "t", "w", "o", " ", "w", "i", "t", "h", " ", "5", " ", "l", "i", "k", "e", "s">>

Short == <<"h", "i">>

Data_dana == [tweet_text |-> <<"f", "r", "o", "m", " ", "d", "a", "t", "a">>, username |-> <<"d", "a", "n", "a">>, likes |-> 7]

Data_blank == [tweet_text |-> <<>>]

Markup_dave == <<"<", "p", ">", "c", "r", "e", "a", "t", "e", " ", "a", " ", "t", "w", "e", "e", "t", " ", "f", "o", "r", " ", "d", "a", "v", "e", " ", "s", "a", "y", "i", "n", "g", " ", "h", "i", " ", "t", "h", "e", "r", "e", "<", "/", "p", ">">>

Cmd_views == <<"c", "r", "e", "a", "t", "e", " ", "a", " ", "t", "w", "e", "e", "t", " ", "f", "o", "r", " ", "b", "o", "b", " ", "s", "a", "y", "i", "n", "g", " ", "h", "i", " ", "w", "i", "t", "h", " ", "1", "0", " ", "l", "i", "k", "e", "s", " ", "a", "n", "d", " ", "5", "0", "0", " ", "v", "i", "e", "w", "s">>

Data_views == [tweet_text |-> <<"s", "e", "e", "n">>, views |-> 500]

\* The conversation history of the selection example.
ExampleHistory ==
    <<TextPart(Markup), TextPart(Status), TextPart(Cmd_first_draft),
      TextPart(Cmd_final_version)>>

\* A valid command, then a command wrapped in markup.
MarkupHistory == <<TextPart(Cmd_final_version), TextPart(Markup_dave)>>

Fragments ==
    {TextPart(Markup), TextPart(Status), TextPart(Cmd_final_version),
     TextPart(Cmd_twice), TextPart(Short), DataPart(Data_dana)}

MaxHistory == 2

A2AMessage(parts) == [role |-> "user", parts |-> parts]

\* message/send: every history of at most MaxHistory fragments, and the
\* examples.
SendMessages ==
    {A2AMessage(parts) : parts \in SeqsUpTo(Fragments, MaxHistory)
                                   \cup {ExampleHistory, MarkupHistory}}

\* execute: the messages of a batch.
ExecuteMessages ==
    {A2AMessage(parts) : parts \in
        {<<>>,
         <<TextPart(Cmd_bob)>>,
         <<TextPart(Cmd_no_body)>>,
         <<TextPart(Cmd_blank_body)>>,
         <<TextPart(Verbatim)>>,
         <<TextPart(Cmd_huge)>>,
         <<DataPart(Data_dana)>>,
         <<DataPart(Data_blank)>>,
         <<TextPart(Cmd_bob), DataPart(Data_dana)>>,
         <<DataPart(Data_dana), TextPart(Cmd_bob)>>,
         <<TextPart(Cmd_no_body), DataPart(Data_dana)>>,
         <<TextPart(Cmd_views)>>,
         <<DataPart(Data_views)>>}}

MaxMessages == 2

MaxRequests == 2

-----------------------------------------------------------------------------
(* Handler.handle_execute *)

\* parse_tweet_request of the texts of the execute messages, computed once.
ExecuteTexts ==
    {Cmd_bob, Cmd_no_body, Cmd_blank_body, Verbatim, Cmd_huge, Cmd_views}

ParseTable == [t \in ExecuteTexts |-> parse_tweet_request(t)]

parse_text(t) ==
    IF t \in ExecuteTexts THEN ParseTable[t] ELSE parse_tweet_request(t)

\* tweet_data after the parts of a message, each part updating the dict in
\* the order of the list: a text part with its parse, a data part with its
\* (non-empty) data.  A text part without text is None.lower().
RECURSIVE merge_parts(_, _)
merge_parts(parts, td) ==
    IF parts = <<>> THEN Ok(td)
    ELSE ValueOf({
        IF part.kind = "text"
        THEN IF part.text = None THEN Raise("AttributeError")
             ELSE ValueOf({
                 IF ~parsed_data.ok THEN parsed_data
                 ELSE merge_parts(Tail(parts), update(td, parsed_data.val))
                 : parsed_data \in {parse_text(part.text[1])}})
        ELSE IF part.kind = "data" /\ part.data # None /\ DOMAIN part.data[1] # {}
        THEN merge_parts(Tail(parts), update(td, part.data[1]))
        ELSE merge_parts(Tail(parts), td)
        : part \in {Head(parts)}})

-----------------------------------------------------------------------------
(* The endpoint /a2a/twitter-screenshot: one request at a time *)

Init ==
    /\ HandlerInit
    /\ FormatIdle
    /\ RenderIdle
    /\ num_str = <<>>
    /\ num_res = <<>>
    /\ shape = <<>>
    /\ text = <<>>
    /\ parsed = <<>>

\* A message/send request, from validation to the response (the handler has
\* no await before its validation error).
MessageSend ==
    /\ pc = "idle"
    /\ served < MaxRequests
    /\ \E message \in SendMessages, redis_up \in BOOLEAN :
       \E e \in {handle_message_send(message, uuids + 1, redis_up)} :
         /\ request' = <<[method |-> "message/send", message |-> message]>>
         /\ latest_user_text' = e.selected
         /\ tweet_data' = e.tweet_data
         /\ renders' = e.renders
         /\ output_dir' = output_dir \cup e.files
         /\ uuids' = uuids + Len(e.renders)
         /\ redis' = update(redis, e.writes)
         /\ response' = <<e.response>>
    /\ outcomes' = <<>>
    /\ task' = NoTask
    /\ served' = served + 1
    /\ UNCHANGED pc
    /\ UNCHANGED parse_vars
    /\ UNCHANGED format_vars
    /\ UNCHANGED render_vars

\* handle_execute up to its loop.
ExecuteBegin ==
    /\ pc = "idle"
    /\ served < MaxRequests
    /\ pc' = "execute"
    /\ request' = <<[method |-> "execute", messages |-> <<>>]>>
    /\ latest_user_text' = <<>>
    /\ tweet_data' = EmptyDict
    /\ outcomes' = <<>>
    /\ renders' = <<>>
    /\ task' = NoTask
    /\ response' = <<>>
    /\ UNCHANGED <<served, output_dir, redis, uuids>>
    /\ UNCHANGED parse_vars
    /\ UNCHANGED format_vars
    /\ UNCHANGED render_vars

\* One turn of the loop: the next message of the batch.
ExecuteMessage ==
    /\ pc = "execute"
    /\ Len(request[1].messages) < MaxMessages
    /\ \E message \in ExecuteMessages :
       \E merged \in {merge_parts(message.parts, EmptyDict)} :
         /\ request' = <<[request[1] EXCEPT !.messages = Append(@, message)]>>
         /\ IF ~merged.ok
            THEN \* the exception leaves the handler: the router answers
                 /\ outcomes' = Append(outcomes, "raised")
                 /\ tweet_data' = EmptyDict
                 /\ response' = <<invalid_params(merged.exc)>>
                 /\ pc' = "idle"
                 /\ served' = served + 1
                 /\ UNCHANGED <<renders, task, output_dir, uuids>>
            ELSE IF "tweet_text" \notin DOMAIN merged.val
            THEN \* continue
                 /\ outcomes' = Append(outcomes, "skipped")
                 /\ tweet_data' = merged.val
                 /\ UNCHANGED <<pc, served, response, renders, task,
                                output_dir, uuids>>
            ELSE \E call \in {render_call(merged.val, uuids + 1)} :
                   \E shot \in {screenshot_of(call)} :
                     /\ outcomes' = Append(outcomes, "rendered")
                     /\ tweet_data' = merged.val
                     /\ renders' = Append(renders, call)
                     /\ output_dir' = output_dir \cup {call.filepath}
                     /\ uuids' = uuids + 1
                     /\ task' = [all_artifacts |-> Append(task.all_artifacts, shot),
                                 all_history   |-> Append(task.all_history, shot),
                                 last_message  |-> Some(shot)]
                     /\ UNCHANGED <<pc, served, response>>
    /\ UNCHANGED <<latest_user_text, redis>>
    /\ UNCHANGED parse_vars
    /\ UNCHANGED format_vars
    /\ UNCHANGED render_vars

\* The loop is over: the task result.
ExecuteReturn ==
    /\ pc = "execute"
    /\ pc' = "idle"
    /\ served' = served + 1
    /\ response' = <<completed(task.last_message, task.all_artifacts,
                               task.all_history)>>
    /\ UNCHANGED <<request, latest_user_text, tweet_data, outcomes, renders,
                   task, output_dir, redis, uuids>>
    /\ UNCHANGED parse_vars
    /\ UNCHANGED format_vars
    /\ UNCHANGED render_vars

Next == MessageSend \/ ExecuteBegin \/ ExecuteMessage \/ ExecuteReturn

Spec == Init /\ [][Next]_vars

-----------------------------------------------------------------------------
(* HelperFunctions.format_number *)

\* str(n) of an int n >= 0.
RECURSIVE str(_)
str(n) ==
    IF n < 10 THEN <<DigitSeq[n + 1]>>
    ELSE str(n \div 10) \o <<DigitSeq[(n % 10) + 1]>>

\* The inputs whose quotient num / unit is a decimal tie (x.x5) that '.1f'
\* rounds up: the double nearest to the quotient lies above the tie (1.05,
\* 999.95) or is the tie itself next to an odd digit (1.75).  Every other tie
\* among the inputs is rounded down (1.25: the tie itself, next to an even
\* digit).
TiesRoundedUp == {1050, 1750, 999950, 1050000}

\* f"{num / unit:.1f}": the quotient rounded to a tenth, as text.
one_decimal(num, unit) ==
    ValueOf({
        ValueOf({
            str(tenths \div 10) \o <<".">> \o str(tenths % 10)
            : tenths \in {IF \/ rest > unit \div 20
                             \/ rest = unit \div 20 /\ num \in TiesRoundedUp
                          THEN (num \div (unit \div 10)) + 1
                          ELSE num \div (unit \div 10)}})
        : rest \in {num % (unit \div 10)}})

format_number(num) ==
    IF num >= 1000000 THEN one_decimal(num, 1000000) \o <<"M">>
    ELSE IF num >= 1000 THEN one_decimal(num, 1000) \o <<"K">>
    ELSE str(num)

\* format_number applied to the small counts and to the values around the
\* two thresholds and around the ties.
MaxPlain == 60

FormatInputs ==
    (0..MaxPlain)
    \cup {999, 1000, 1001, 1049, 1050, 1051, 1249, 1250, 1251, 1500, 1750,
          1949, 1951, 9999, 10000, 99949, 99951, 999949, 999950, 999951,
          999999, 1000000, 1000001, 1049999, 1050000, 1050001, 1250000,
          1500000, 999949999, 999950001}

FormatInit ==
    /\ fmt_num \in FormatInputs
    /\ fmt_res = <<>>
    /\ num_str = <<>>
    /\ num_res = <<>>
    /\ shape = <<>>
    /\ text = <<>>
    /\ parsed = <<>>
    /\ HandlerInit
    /\ RenderIdle

FormatNumber ==
    /\ fmt_res = <<>>
    /\ fmt_res' = <<format_number(fmt_num)>>
    /\ UNCHANGED fmt_num
    /\ UNCHANGED parse_vars
    /\ UNCHANGED handler_vars
    /\ UNCHANGED render_vars

FormatNext == FormatNumber

SpecFormat == FormatInit /\ [][FormatNext]_vars

-----------------------------------------------------------------------------
(* HelperFunctions.generate_tweet_screenshot *)

width == 598

padding == 16

\* Image.new("RGB", (width, 500)): the height of the buffer that is drawn on.
canvas_height == 500

profile_size == 48

line_height == 20

icon_size == 20

max_width == width - (2 * padding)

font_bold == "fonts/Inter-Bold.ttf"

font_regular == "fonts/Inter-Regular.ttf"

badge_path == "icons/twitter_verified_badge.png"

icon_names == <<"reply", "retweet", "like", "views">>

icon_paths ==
    [reply |-> "icons/reply.png", retweet |-> "icons/retweet.png",
     like |-> "icons/like.png", views |-> "icons/views.png"]

\* The files the function opens.
Assets ==
    {font_bold, font_regular, badge_path}
    \cup {icon_paths[n] : n \in DOMAIN icon_paths}

\* ImageFont.truetype(path, size) under try, with the font taken on failure.
truetype(paths, present, fallback) ==
    IF paths \subseteq present THEN "truetype" ELSE fallback

\* utils.py:53-65: seven fonts in one try; any failure gives all seven the
\* default font.
load_fonts(present) ==
    [f \in {"name_font", "username_font", "text_font", "stats_font",
            "stats_label_font", "timestamp_font", "button_font"} |->
        truetype({font_bold, font_regular}, present, "default")]

\* One call of draw.* or img.paste: what, for which item, with which text,
\* and the rows it covers.  A text whose height depends on the font covers
\* the rows from `top` on; its `bottom` is its top.
Element(what, at, txt, top, bottom) ==
    [what |-> what, at |-> at, text |-> txt, top |-> top, bottom |-> bottom]

\* A word of tweet_text.split() is given by its advance width under the
\* text font.  draw.textbbox((0, 0), " ".join(line))[2]: the advances of
\* the words and of the spaces between them (6 for a space).
RECURSIVE textbbox(_)
textbbox(line) ==
    IF line = <<>> THEN 0
    ELSE IF Len(line) = 1 THEN line[1]
    ELSE line[1] + 6 + textbbox(Tail(line))

\* fits with an exclusive boundary: a candidate line of exactly max_width
\* does not fit.
fits_exclusive(test_line) == textbbox(test_line) < max_width

\* utils.py:183
fits(test_line) == textbbox(test_line) <= max_width

\* The words of the lines, in order.
RECURSIVE Concat(_)
Concat(ls) == IF ls = <<>> THEN <<>> ELSE Head(ls) \o Concat(Tail(ls))

\* stats_data with the counters in the order likes, retweets, replies.
stats_data_likes_first(args) ==
    SelectSeq(<<[label |-> "Likes", value |-> args.likes],
                [label |-> "Retweets", value |-> args.retweets],
                [label |-> "Replies", value |-> args.replies]>>,
              LAMBDA e : e.value > 0)

\* utils.py:220-226
stats_data(args) ==
    SelectSeq(<<[label |-> "Retweets", value |-> args.retweets],
                [label |-> "Likes", value |-> args.likes],
                [label |-> "Replies", value |-> args.replies]>>,
              LAMBDA e : e.value > 0)

\* utils.py:275-280
icon_stats(args) ==
    [reply |-> args.replies, retweet |-> args.retweets, like |-> args.likes,
     views |-> args.views]

\* open_icon without the except: a missing icon file raises.
open_icon_uncaught(name, present, y) ==
    IF icon_paths[name] \in present
    THEN Ok(Element("icon", name, <<>>, y, y + icon_size))
    ELSE Raise("FileNotFoundError")

\* utils.py:289-308: the icon pasted, or on any exception the outlined
\* circle drawn in its place.
open_icon(name, present, y) ==
    IF icon_paths[name] \in present
    THEN Ok(Element("icon", name, <<>>, y, y + icon_size))
    ELSE Ok(Element("placeholder", name, <<>>, y, y + icon_size))

\* utils.py:49-65: the canvas and the fonts.
LoadFonts ==
    /\ rpc = "fonts"
    /\ fonts' = load_fonts(assets)
    /\ rpc' = "header"
    /\ UNCHANGED <<render_args, assets, lines, current_line, text_y, drawn,
                   icon_i, image>>
    /\ UNCHANGED <<parse_vars, handler_vars, format_vars>>

\* utils.py:74-172: the profile circle with the initials, the name, the
\* badge of a verified author, the follow button and the username.  The
\* badge file is opened outside any try.
DrawHeader ==
    /\ rpc = "header"
    /\ \E args \in {render_args[1]} :
         /\ fonts' = Put(fonts, "initial_font",
                         truetype({font_bold}, assets, fonts["name_font"]))
         /\ \E head \in {<<Element("profile", "", <<>>, padding, padding + profile_size),
                           Element("initials", "", <<>>, padding, padding),
                           Element("name", "", <<>>, padding + 2, padding + 2)>>} :
            IF args.verified /\ badge_path \notin assets
            THEN /\ drawn' = drawn \o head
                 /\ image' = <<Raise("FileNotFoundError")>>
                 /\ rpc' = "raised"
                 /\ UNCHANGED text_y
            ELSE /\ drawn' = drawn \o head
                       \o (IF args.verified
                           THEN <<Element("badge", "", <<>>, padding + 4, padding + 20)>>
                           ELSE <<>>)
                       \o <<Element("follow", "", <<>>, padding, padding + 32),
                            Element("username", "", <<>>, padding + 22, padding + 22)>>
                 /\ text_y' = padding + profile_size + 12
                 /\ rpc' = "wrap"
                 /\ UNCHANGED image
    /\ UNCHANGED <<render_args, assets, lines, current_line, icon_i>>
    /\ UNCHANGED <<parse_vars, handler_vars, format_vars>>

\* utils.py:180-188: one turn of the wrap loop, for the next word.
WrapWord ==
    /\ rpc = "wrap"
    /\ \E words \in {render_args[1].tweet_text} :
       \E i \in {Len(Concat(lines)) + Len(current_line) + 1} :
         /\ i <= Len(words)
         /\ IF fits(Append(current_line, words[i]))
            THEN /\ current_line' = Append(current_line, words[i])
                 /\ UNCHANGED lines
            ELSE /\ lines' = IF current_line # <<>>
                             THEN Append(lines, current_line) ELSE lines
                 /\ current_line' = <<words[i]>>
    /\ UNCHANGED <<render_args, assets, rpc, fonts, text_y, drawn, icon_i, image>>
    /\ UNCHANGED <<parse_vars, handler_vars, format_vars>>

\* utils.py:190-196: the last line, then every line drawn line_height
\* below the one before.
DrawText ==
    /\ rpc = "wrap"
    /\ Len(Concat(lines)) + Len(current_line) = Len(render_args[1].tweet_text)
    /\ \E all \in {IF current_line # <<>> THEN Append(lines, current_line)
                   ELSE lines} :
         /\ lines' = all
         /\ drawn' = drawn \o [k \in 1..Len(all) |->
                                 Element("line", "", <<>>,
                                         text_y + line_height * (k - 1),
                                         text_y + line_height * k)]
         /\ text_y' = text_y + line_height * Len(all)
    /\ rpc' = "stats"
    /\ UNCHANGED <<render_args, assets, fonts, current_line, icon_i, image>>
    /\ UNCHANGED <<parse_vars, handler_vars, format_vars>>

\* utils.py:198-286: the timestamp, a divider, the engagement counters, a
\* divider, and the font of the icon counts.  text_y ends as button_y.
DrawStats ==
    /\ rpc = "stats"
    /\ \E row \in {stats_data(render_args[1])} :
       \E stats_y \in {text_y + 12 + 28 + 12} :
         /\ drawn' = drawn
               \o <<Element("timestamp", "", <<>>, text_y + 12, text_y + 12),
                    Element("divider", "above", <<>>, text_y + 12 + 28, text_y + 12 + 28 + 1)>>
               \o [k \in 1..Len(row) |->
                     Element("counter", row[k].label, format_number(row[k].value),
                             stats_y, stats_y)]
               \o <<Element("divider", "below", <<>>, stats_y + 28, stats_y + 28 + 1)>>
         /\ text_y' = stats_y + 28 + 12
    /\ fonts' = Put(fonts, "icon_number_font",
                    truetype({font_regular}, assets, fonts["stats_label_font"]))
    /\ icon_i' = 0
    /\ rpc' = "icons"
    /\ UNCHANGED <<render_args, assets, lines, current_line, image>>
    /\ UNCHANGED <<parse_vars, handler_vars, format_vars>>

\* utils.py:288-321: one turn of the icon loop: the icon or its placeholder,
\* then the count of a metric greater than zero.
DrawIcon ==
    /\ rpc = "icons"
    /\ icon_i < Len(icon_names)
    /\ \E name \in {icon_names[icon_i + 1]} :
       \E icon \in {open_icon(name, assets, text_y)} :
       \E stat_value \in {icon_stats(render_args[1])[name]} :
         IF ~icon.ok
         THEN /\ image' = <<icon>>
              /\ rpc' = "raised"
              /\ UNCHANGED <<drawn, icon_i>>
         ELSE /\ drawn' = drawn \o <<icon.val>>
                    \o (IF stat_value > 0
                        THEN <<Element("count", name, format_number(stat_value),
                                       text_y + 2, text_y + 2)>>
                        ELSE <<>>)
              /\ icon_i' = icon_i + 1
              /\ UNCHANGED <<rpc, image>>
    /\ UNCHANGED <<render_args, assets, fonts, lines, current_line, text_y>>
    /\ UNCHANGED <<parse_vars, handler_vars, format_vars>>

\* utils.py:323-331: the crop to final_y and the file output/tweet_<uuid>.png.
\* A crop box that reaches below the buffer is filled with undrawn rows.
CropAndSave ==
    /\ rpc = "icons"
    /\ icon_i = Len(icon_names)
    /\ image' = <<Ok([height |-> text_y + 35, filepath |-> uuids + 1])>>
    /\ uuids' = uuids + 1
    /\ output_dir' = output_dir \cup {uuids + 1}
    /\ rpc' = "done"
    /\ UNCHANGED <<render_args, assets, fonts, lines, current_line, text_y,
                   drawn, icon_i>>
    /\ UNCHANGED <<pc, served, request, latest_user_text, tweet_data, outcomes,
                   renders, task, response, redis>>
    /\ UNCHANGED <<parse_vars, format_vars>>

\* The calls: a body of at most MaxWords words that fill half a line, a
\* whole line or more than a line, and bodies of many over-long words.
MaxWords == 3

MaxLines == 16

WordWidths == {(max_width - 6) \div 2, max_width, max_width + 1}

Texts ==
    SeqsUpTo(WordWidths, MaxWords)
    \cup {[i \in 1..n |-> max_width + 1] : n \in {MaxLines - 1, MaxLines}}

Counts == {-1, 0, 1500}

\* Every body and every count with all files in place, and every set of
\* files with a one-word body.
RenderCases ==
    [args : [tweet_text : Texts, verified : {FALSE}, likes : Counts,
             retweets : Counts, replies : Counts, views : Counts],
     assets : {Assets}]
    \cup
    [args : [tweet_text : {<<max_width>>}, verified : BOOLEAN,
             likes : Counts \ {-1}, retweets : Counts \ {-1},
             replies : Counts \ {-1}, views : Counts \ {-1}],
     assets : SUBSET Assets]

RenderInit ==
    /\ \E c \in RenderCases :
         /\ render_args = <<c.args>>
         /\ assets = c.assets
    /\ rpc = "fonts"
    /\ fonts = EmptyDict
    /\ lines = <<>>
    /\ current_line = <<>>
    /\ text_y = 0
    /\ drawn = <<>>
    /\ icon_i = 0
    /\ image = <<>>
    /\ num_str = <<>>
    /\ num_res = <<>>
    /\ shape = <<>>
    /\ text = <<>>
    /\ parsed = <<>>
    /\ HandlerInit
    /\ FormatIdle

RenderNext ==
    \/ LoadFonts
    \/ DrawHeader
    \/ WrapWord
    \/ DrawText
    \/ DrawStats
    \/ DrawIcon
    \/ CropAndSave

SpecRender == RenderInit /\ [][RenderNext]_vars

-----------------------------------------------------------------------------
(* Properties of parse_number and parse_tweet_request *)

\* The result key of the second clause slot of a shape.
MetricKey(metric) ==
    IF metric = <<"r", "e", "t", "w", "e", "e", "t", "s">> THEN "retweets"
    ELSE IF metric = <<"r", "e", "p", "l", "y">> THEN "replies"
    ELSE "views"

\* C1: in each engagement clause, every magnitude token that parse_number
\* accepts (decimal tokens with a suffix such as 1.5k included) is recognised
\* and stored as parse_number of the token, next to the verified flag and the
\* body "great news" of the command.
C1_ClausesStoreAcceptedTokens ==
    (parsed # <<>> /\ shape[1] \in ClauseShapes) =>
        LET sh == shape[1]
            r  == parsed[1]
        IN  ( /\ sh.likes # <<>> => parse_number(sh.likes[1]).ok
              /\ sh.other # <<>> => parse_number(sh.other[1]).ok )
            =>
            /\ r.ok
            /\ sh.likes # <<>> =>
                   /\ "likes" \in DOMAIN r.val
                   /\ r.val["likes"] = parse_number(sh.likes[1]).val
            /\ sh.other # <<>> =>
                   /\ MetricKey(sh.other[2]) \in DOMAIN r.val
                   /\ r.val[MetricKey(sh.other[2])] = parse_number(sh.other[1]).val
            /\ "verified" \in DOMAIN r.val /\ r.val["verified"] = TRUE
            /\ sh.likes # <<>> =>
                   /\ "tweet_text" \in DOMAIN r.val
                   /\ r.val["tweet_text"] = Join(sh.body)

\* C2: a decimal numeral (digits, optionally a point and more digits),
\* optionally followed by k or m in either case, is mapped to the numeral
\* times 1, 1000 or 1000000, truncated toward zero; a bare "1.5" gives 1.
C2_DecimalNumeralTimesMultiplier ==
    num_res # <<>> =>
        LET s      == num_str
            n      == Len(s)
            suffix == IF n > 0 /\ LowerChar(s[n]) \in {"k", "m"}
                      THEN LowerChar(s[n]) ELSE ""
            body   == IF suffix = "" THEN s ELSE SubSeq(s, 1, n - 1)
            zeros  == IF suffix = "k" THEN 3 ELSE IF suffix = "m" THEN 6 ELSE 0
            dots   == {i \in 1..Len(body) : body[i] = "."}
            p      == IF dots = {} THEN Len(body) + 1 ELSE Min(dots)
            ip     == SubSeq(body, 1, p - 1)
            fp     == SubSeq(body, p + 1, Len(body))
            numeral == /\ Cardinality(dots) <= 1
                       /\ ip # <<>> /\ AllDigits(ip)
                       /\ AllDigits(fp)
                       /\ dots # {} => fp # <<>>
            shifted == [i \in 1..zeros |-> IF i <= Len(fp) THEN fp[i] ELSE "0"]
        IN  numeral => num_res[1] = Ok(DigitsValue(ip \o shifted))

\* The three rules of the body that are patterns, and the verbatim rule.
RuleA(t) == search(pattern1, t)

RuleB(t) == search(pattern2, t)

RuleC(t) ==
    /\ ~ \E word \in command_words : startswith(strip(lower(t)), word)
    /\ strip(t) # <<>>

RuleD(t) == search(pattern4, t)

BodyKeys == {"username", "display_name", "tweet_text"}

\* The body keys of a result, as a dict of their own.
BodyPart(d) == [k \in DOMAIN d \cap BodyKeys |-> d[k]]

\* C6: the body of the result is that of the first rule that matches, in the
\* order (a) for <username> saying <body>, (b) saying <body>, (c) verbatim
\* text without a leading command keyword, (d) <command> tweet <body>: a text
\* matching (a) takes username and display_name from the capture whatever
\* else it matches, and (c) applies only when neither (a) nor (b) matches.
C6_FirstMatchingRuleWins ==
    (parsed # <<>> /\ parsed[1].ok) =>
        LET d == BodyPart(parsed[1].val)
            a == RuleA(text)
            b == RuleB(text)
            c == RuleC(text)
            e == RuleD(text)
        IN  /\ a.ok =>
                d = [username |-> lower(a.g[1]), display_name |-> title(a.g[1]),
                     tweet_text |-> strip(a.g[2])]
            /\ (~a.ok /\ b.ok) => d = [tweet_text |-> strip(b.g[1])]
            /\ (~a.ok /\ ~b.ok /\ c) => d = [tweet_text |-> strip(text)]
            /\ (~a.ok /\ ~b.ok /\ ~c /\ e.ok) => d = [tweet_text |-> strip(e.g[1])]
            /\ (~a.ok /\ ~b.ok /\ ~c /\ ~e.ok) => DOMAIN d = {}

\* A parsed text that matches (a), (b) and (c) at once and has the username
\* of the capture of (a).
C6_Witness ==
    /\ parsed # <<>> /\ parsed[1].ok
    /\ RuleA(text).ok /\ RuleB(text).ok /\ RuleC(text)
    /\ "username" \in DOMAIN parsed[1].val
    /\ parsed[1].val["username"] = <<"b", "o", "b">>

\* C7: after "saying", tweet_text is every word up to the trailing
\* " with ..." engagement clause or the end of the text, trimmed: a body that
\* holds the word "with" keeps all of its words.
C7_BodyUpToTrailingClause ==
    (parsed # <<>> /\ parsed[1].ok /\ shape[1].say # <<>> /\ shape[1].body # <<>>) =>
        LET sh == shape[1]
            words == IF sh.likes # <<>> \/ sh.other = <<>> THEN sh.body
                     ELSE sh.body \o MetricWords(sh.other[1], sh.other[2])
        IN  /\ "tweet_text" \in DOMAIN parsed[1].val
            /\ parsed[1].val["tweet_text"] = Join(words)

\* C10: parse_tweet_request raises for no text: every token a clause pattern
\* captures is one parse_number converts.
C10_ParseNeverRaises ==
    parsed # <<>> => parsed[1].ok

-----------------------------------------------------------------------------
(* Properties of the handlers *)

\* C3: the text message/send hands to the parser is the newest fragment of
\* the parts that is not markup, holds no generation-status phrase and has at
\* least MinFragmentLen characters; for the example history it is the
\* "final version" command.
C3_NewestValidFragmentSelected ==
    (pc = "idle" /\ request # <<>> /\ request[1].method = "message/send") =>
        LET parts == request[1].message.parts
            valid(i) ==
                /\ parts[i].kind = "text"
                /\ parts[i].text # None
                /\ Len(strip(parts[i].text[1])) >= MinFragmentLen
                /\ ~startswith(strip(parts[i].text[1]), <<"<">>)
                /\ ~ \E kw \in noise_keywords :
                       contains(lower(parts[i].text[1]), kw)
            good == {i \in 1..Len(parts) : valid(i)}
        IN  good # {} => latest_user_text = parts[Max(good)].text[1]

\* C4: a message/send whose selected text holds two commands renders the
\* last command alone: one screenshot, with the username, the body and the
\* likes of the last segment.
C4_LastSegmentRendered ==
    ( /\ pc = "idle" /\ request # <<>>
      /\ request[1].method = "message/send"
      /\ request[1].message.parts # <<>>
      /\ request[1].message.parts[Len(request[1].message.parts)]
             = TextPart(Cmd_twice) )
    =>
        /\ Len(renders) = 1
        /\ renders[1].username = <<"b", "o", "b">>
        /\ renders[1].tweet_text = <<"t", "w", "o">>
        /\ renders[1].likes = 5

\* C5: in handle_execute, a message with text parts and data parts gets every
\* field of a data part from the data part, whatever the order of the parts.
C5_DataPrecedesText ==
    ( /\ request # <<>> /\ request[1].method = "execute"
      /\ outcomes # <<>> /\ outcomes[Len(outcomes)] # "raised" )
    =>
        LET parts == request[1].messages[Len(outcomes)].parts IN
        (\E i \in 1..Len(parts) : parts[i].kind = "text") =>
            \A i \in 1..Len(parts) :
                parts[i].kind = "data" =>
                    \A k \in DOMAIN parts[i].data[1] :
                        /\ k \in DOMAIN tweet_data
                        /\ tweet_data[k] = parts[i].data[1][k]

\* C8: a request text without a tweet_text gets the "Missing tweet content"
\* error and no render: the text of a message/send, and each message of an
\* execute.
C8_NoMatchIsReported ==
    (pc = "idle" /\ response # <<>>) =>
        /\ ( /\ request[1].method = "message/send"
             /\ "tweet_text" \notin DOMAIN tweet_data )
           => (response[1] = missing_content /\ renders = <<>>)
        /\ ( /\ request[1].method = "execute"
             /\ \A i \in 1..Len(outcomes) : outcomes[i] # "raised" )
           => \A i \in 1..Len(outcomes) :
                  ( /\ outcomes[i] = "skipped"
                    /\ \E k \in 1..Len(request[1].messages[i].parts) :
                           request[1].messages[i].parts[k].kind = "text" )
                  => response[1] = missing_content

\* C9: generate_tweet_screenshot is called only with a tweet_text that is
\* not empty and not whitespace.
C9_RenderedBodyNotEmpty ==
    \A i \in 1..Len(renders) : strip(renders[i].tweet_text) # <<>>

-----------------------------------------------------------------------------
(* Properties of format_number *)

\* The number a formatted count shows, in tenths: "12.3K" shows 123.
ShownTenths(r) ==
    10 * DigitsValue(SubSeq(r, 1, Len(r) - 3)) + DigitVal(r[Len(r) - 1])

\* r is digits, a point, one digit and the suffix.
OneDecimalWith(r, suffix) ==
    /\ Len(r) >= 4
    /\ r[Len(r)] = suffix
    /\ r[Len(r) - 2] = "."
    /\ r[Len(r) - 1] \in Digits
    /\ AllDigits(SubSeq(r, 1, Len(r) - 3))

\* C15: format_number renders a value >= 1,000,000 as value/1e6 with one
\* decimal and the suffix M, a value in [1000, 999999] as value/1e3 with one
\* decimal and the suffix K, the number shown being below 1000, and a smaller
\* value as the plain integer.
C15_FormatNumberBands ==
    fmt_res # <<>> =>
        \E r \in {fmt_res[1]} :
            IF fmt_num >= 1000000
            THEN /\ OneDecimalWith(r, "M")
                 /\ \E t \in {ShownTenths(r)} :
                        /\ t \in 10..20000
                        /\ t * 100000 - fmt_num <= 50000
                        /\ fmt_num - t * 100000 <= 50000
            ELSE IF fmt_num >= 1000
            THEN /\ OneDecimalWith(r, "K")
                 /\ \E t \in {ShownTenths(r)} :
                        /\ t \in 10..10000
                        /\ t * 100 - fmt_num <= 50
                        /\ fmt_num - t * 100 <= 50
                 /\ ShownTenths(r) < 10000
            ELSE r = str(fmt_num)

-----------------------------------------------------------------------------
(* Properties of generate_tweet_screenshot *)

\* The content width: the image width less the padding on both sides.
ContentWidth == 598 - 2 * 16

\* The greedy wrap of a sequence of words: the lines flushed and the line
\* being filled.  A word joins the line in hand iff the candidate line
\* measures at most ContentWidth; otherwise the line in hand, if it has a
\* word, is flushed and the word starts the next line.
RECURSIVE GreedyWrap(_)
GreedyWrap(ws) ==
    IF ws = <<>> THEN [flushed |-> <<>>, filling |-> <<>>]
    ELSE ValueOf({
        IF textbbox(Append(prev.filling, ws[Len(ws)])) <= ContentWidth
        THEN [flushed |-> prev.flushed,
              filling |-> Append(prev.filling, ws[Len(ws)])]
        ELSE [flushed |-> IF prev.filling = <<>> THEN prev.flushed
                          ELSE Append(prev.flushed, prev.filling),
              filling |-> <<ws[Len(ws)]>>]
        : prev \in {GreedyWrap(SubSeq(ws, 1, Len(ws) - 1))}})

\* C12: the body is wrapped greedily with an inclusive boundary.  After any
\* number of words the lines and the line in hand are those of the greedy
\* wrap of the words taken so far (a candidate line of exactly the content
\* width stays on the line), the final lines are those of the whole body, and
\* no line is empty, also when a single word is wider than the content width.
C12_GreedyInclusiveWrap ==
    /\ rpc = "wrap" =>
         \E n \in {Len(Concat(lines)) + Len(current_line)} :
         \E g \in {GreedyWrap(SubSeq(render_args[1].tweet_text, 1, n))} :
           /\ lines = g.flushed
           /\ current_line = g.filling
    /\ rpc \in {"stats", "icons", "done"} =>
         \E g \in {GreedyWrap(render_args[1].tweet_text)} :
           lines = IF g.filling = <<>> THEN g.flushed
                   ELSE Append(g.flushed, g.filling)
    /\ \A k \in 1..Len(lines) : lines[k] # <<>>

\* The body is wrapped, one line of two words is exactly as wide as the
\* content and one line is a single word wider than the content.
C12_Witness ==
    /\ rpc = "stats"
    /\ \E k \in 1..Len(lines) :
         Len(lines[k]) >= 2 /\ textbbox(lines[k]) = ContentWidth
    /\ \E k \in 1..Len(lines) :
         Len(lines[k]) = 1 /\ textbbox(lines[k]) > ContentWidth

\* C13: the height of the image follows the content.  With n wrapped lines
\* the saved image is 203 + 20*n rows high, everything drawn lies inside the
\* buffer that is drawn on, and the crop takes no row outside that buffer.
C13_HeightFollowsContent ==
    (rpc = "done" /\ image[1].ok) =>
        /\ image[1].val.height = 203 + 20 * Len(lines)
        /\ \A k \in 1..Len(drawn) : drawn[k].bottom <= canvas_height
        /\ image[1].val.height <= canvas_height

\* The labels of the counters of the engagement row, in the order drawn.
CounterRow ==
    [k \in 1..Len(SelectSeq(drawn, LAMBDA e : e.what = "counter")) |->
        SelectSeq(drawn, LAMBDA e : e.what = "counter")[k].at]

\* The icons with a number drawn next to them.
IconsWithCount ==
    {drawn[k].at : k \in {j \in 1..Len(drawn) : drawn[j].what = "count"}}

\* C14: the engagement row holds exactly the metrics among retweets, likes
\* and replies that are greater than zero, in that order, and a metric of
\* zero has no number next to its icon either.
C14_PositiveMetricsInFixedOrder ==
    \A args \in {a \in {render_args[i] : i \in 1..Len(render_args)} :
                    rpc \in {"icons", "done"}} :
        /\ CounterRow =
              (IF args.retweets > 0 THEN <<"Retweets">> ELSE <<>>)
              \o (IF args.likes > 0 THEN <<"Likes">> ELSE <<>>)
              \o (IF args.replies > 0 THEN <<"Replies">> ELSE <<>>)
        /\ args.replies = 0 => "reply" \notin IconsWithCount
        /\ args.retweets = 0 => "retweet" \notin IconsWithCount
        /\ args.likes = 0 => "like" \notin IconsWithCount

\* A finished image with no retweets, some likes and some replies.
C14_Witness ==
    /\ rpc = "done"
    /\ render_args[1].retweets = 0
    /\ render_args[1].likes > 0
    /\ render_args[1].replies > 0
    /\ CounterRow = <<"Likes", "Replies">>
    /\ IconsWithCount \cap {"reply", "retweet", "like"} = {"reply", "like"}

\* C16: a missing font or icon file never aborts the render of an
\* unverified post.  Whatever files are absent, no step raises, every step
\* before the end has a next step, and the finished call has returned a
\* path, drawn every icon present and a placeholder for every icon absent,
\* drawn the count of every metric above zero, and used the default font
\* where the font files are not both present.
C16_MissingAssetsNeverAbort ==
    \A args \in {a \in {render_args[i] : i \in 1..Len(render_args)} :
                    ~a.verified} :
        /\ rpc # "raised"
        /\ rpc # "done" => ENABLED RenderNext
        /\ rpc = "done" =>
             /\ image[1].ok
             /\ image[1].val.filepath \in output_dir
             /\ \A i \in 1..Len(icon_names) :
                  \E k \in 1..Len(drawn) :
                    /\ drawn[k].what =
                         IF icon_paths[icon_names[i]] \in assets
                         THEN "icon" ELSE "placeholder"
                    /\ drawn[k].at = icon_names[i]
             /\ \A i \in 1..Len(icon_names) :
                  icon_stats(args)[icon_names[i]] > 0
                      => icon_names[i] \in IconsWithCount
             /\ fonts["text_font"] =
                  IF {font_bold, font_regular} \subseteq assets
                  THEN "truetype" ELSE "default"

\* A finished image of an unverified post with no font file and without the
\* first icon, the other icons in place and the count of likes drawn.
C16_Witness ==
    /\ rpc = "done"
    /\ ~render_args[1].verified
    /\ assets \cap {font_bold, font_regular, icon_paths["reply"]} = {}
    /\ {icon_paths["retweet"], icon_paths["like"], icon_paths["views"]}
          \subseteq assets
    /\ render_args[1].likes > 0
    /\ "like" \in IconsWithCount
    /\ image[1].ok

-----------------------------------------------------------------------------
(* Properties of the endpoint: selection, files, cache and views *)

\* A text part whose text begins with "<".
StartsWithMarkup(part) ==
    /\ part.kind = "text"
    /\ part.text # None
    /\ startswith(part.text[1], <<"<">>)

\* C11: a fragment that starts with "<" is never the fragment selected,
\* whatever it holds between or after its tags.  For a message/send request
\* whose history is a valid command followed by such a fragment, the noise
\* test rejects the fragment, the selected text is not the fragment and the
\* older command is selected instead.
C11_MarkupFragmentSkipped ==
    \A req \in {r \in {request[i] : i \in 1..Len(request)} :
                   r.method = "message/send" /\ response # <<>>} :
    \A parts \in {req.message.parts} :
        (/\ Len(parts) = 2
         /\ parts[1] = TextPart(Cmd_final_version)
         /\ StartsWithMarkup(parts[2]))
        => /\ is_noise(parts[2].text[1])
           /\ latest_user_text # parts[2].text[1]
           /\ latest_user_text = Cmd_final_version

\* C18: once a request has returned its result, no image file written
\* under output/ for it still exists.
C18_NoImageRetained ==
    (pc = "idle" /\ response # <<>> /\ response[1].kind = "result") =>
        \A k \in 1..Len(renders) : renders[k].filepath \notin output_dir

\* C19: every image a completed result names was stored in the cache under
\* image:<id> before the response was returned.
C19_ReturnedImagesAreCached ==
    \A resp \in {r \in {response[i] : i \in 1..Len(response)} :
                    pc = "idle" /\ r.kind = "result"} :
        \A k \in 1..Len(resp.artifacts) :
            <<"image", resp.artifacts[k].image_id>> \in DOMAIN redis

\* C20: the views of a request reach the renderer unchanged.  When the
\* message just rendered has views = N > 0 in its record, the renderer was
\* called with views = N.
C20_ViewsReachRenderer ==
    (/\ outcomes # <<>>
     /\ outcomes[Len(outcomes)] = "rendered"
     /\ "views" \in DOMAIN tweet_data)
    => (tweet_data["views"] > 0
        => bound_views(renders[Len(renders)]) = tweet_data["views"])

=============================================================================
